---- MODULE Spec2Model ----
(***************************************************************************)
(* Trading Decision & Survival Engine of the autonomous trading agent.     *)
(*                                                                         *)
(* The model follows src/position_sizer.py (MispricingDetector,            *)
(* KellyPositionSizer), src/executor.py (TradeExecutor),                   *)
(* src/self_funding.py (AgentState, SelfFundingManager, DeathCheck) and    *)
(* src/main.py (run_cycle, main).                                          *)
(*                                                                         *)
(* Numbers: every Python float is modelled as an exact rational <<n, d>>   *)
(* in lowest terms with d > 0, and the arithmetic is carried out as the    *)
(* code writes it (b = (1 - e) / e, (b*p - q) / b, round(x, 2), ...).      *)
(* Binary floating point error is not modelled.                            *)
(* Text (error messages) is modelled as a sequence of one-character        *)
(* strings so that lower() and the substring tests are computed.           *)
(***************************************************************************)
EXTENDS Integers, Sequences, FiniteSets, TLC

VARIABLES
    estimates,      \* list[FairValueEstimate] handed to the detector / sizer
    mispriced,      \* result of MispricingDetector.find_signals
    sizer,          \* KellyPositionSizer fields: bankroll, max_position_pct, kelly_fraction
    signals,        \* result of KellyPositionSizer.size_batch
    connector,      \* behaviour of the exchange connector, one entry per signal
    results,        \* result of TradeExecutor.execute_batch
    orders,         \* orders the connector received through post_order (last batch)
    state,          \* the in-memory AgentState
    file,           \* agent_state.json on disk
    proc,           \* the process: "down" or "up"
    lastOp,         \* the operation that produced the current state and what it returned
    declaredDead,   \* history: DeathCheck.is_dead has returned True
    pc,             \* position of the sizing / execution pipelines
    shutdown_requested, \* the flag handle_signal sets
    at,             \* where main() stands: "start", "top", "cycle", "wait", "backoff", "exit"
    left            \* iterations the inter-cycle wait loop still has to run

vars == <<estimates, mispriced, sizer, signals, connector, results, orders,
          state, file, proc, lastOp, declaredDead, pc,
         shutdown_requested, at, left>>

(***************************************************************************)
(* Exact rational arithmetic standing for Python float arithmetic.         *)
(***************************************************************************)
Abs(x) == IF x < 0 THEN -x ELSE x

RECURSIVE GCD(_, _)
GCD(a, b) == IF b = 0 THEN a ELSE GCD(b, a % b)

Rat(n, d) ==
    LET g == GCD(Abs(n), Abs(d))
        s == IF d < 0 THEN -1 ELSE 1
    IN  <<(s * n) \div g, (s * d) \div g>>

RAdd(x, y) == Rat(x[1] * y[2] + y[1] * x[2], x[2] * y[2])
RSub(x, y) == Rat(x[1] * y[2] - y[1] * x[2], x[2] * y[2])
RMul(x, y) == Rat(x[1] * y[1], x[2] * y[2])
RDiv(x, y) == Rat(x[1] * y[2], x[2] * y[1])
RLt(x, y) == x[1] * y[2] < y[1] * x[2]
RLe(x, y) == x[1] * y[2] <= y[1] * x[2]
RMin(x, y) == IF RLt(y, x) THEN y ELSE x
RAbs(x) == <<Abs(x[1]), x[2]>>
Zero == <<0, 1>>
One == <<1, 1>>

\* Python round(x, 2): nearest multiple of 0.01, an exact half goes to the even one.
\* (Amounts are exact rationals here.  Where the exact value is a half cent,
\* the binary float the code holds lies a hair to one side of it and round()
\* follows that side; such a value can differ from this one by 0.01.)
Round2(x) ==
    LET n == x[1] * 100
        d == x[2]
        f == n \div d
        r == n - f * d
        c == IF 2 * r < d THEN f
             ELSE IF 2 * r > d THEN f + 1
             ELSE IF f % 2 = 0 THEN f ELSE f + 1
    IN  Rat(c, 100)

RECURSIVE RSum(_)
RSum(s) == IF s = <<>> THEN Zero ELSE RAdd(Head(s), RSum(Tail(s)))

(***************************************************************************)
(* Configuration (src/config.py defaults).                                 *)
(***************************************************************************)
MIN_EDGE_PERCENT == 8
MAX_POSITION_PERCENT == 6
STARTING_BANKROLL == 50
DEATH_THRESHOLD == Rat(1, 2)

(***************************************************************************)
(* FairValueEstimate as FairValueEngine.estimate builds it.                *)
(***************************************************************************)
FairValueEstimate(id, yes_price, no_price, fair_yes, confidence) ==
    LET edge == RSub(fair_yes, yes_price) IN
    [ id |-> id,
      yes_price |-> yes_price,
      no_price |-> no_price,
      fair_yes_prob |-> fair_yes,
      confidence |-> confidence,
      edge |-> edge,
      abs_edge |-> RAbs(edge),
      recommended_side |-> IF RLt(Zero, edge) THEN "YES" ELSE "NO" ]

(***************************************************************************)
(* MispricingDetector.find_signals: filter, then a stable sort descending  *)
(* by abs_edge * confidence (list.sort(key, reverse=True) keeps the input  *)
(* order of equal keys).                                                   *)
(***************************************************************************)
min_edge == Rat(MIN_EDGE_PERCENT, 100)

SortKey(est) == RMul(est.abs_edge, est.confidence)

RECURSIVE InsertDesc_TiesFirst(_, _)
InsertDesc_TiesFirst(sorted, e) ==
    IF sorted = <<>> THEN <<e>>
    ELSE IF RLe(SortKey(Head(sorted)), SortKey(e))
         THEN <<e>> \o sorted
         ELSE <<Head(sorted)>> \o InsertDesc_TiesFirst(Tail(sorted), e)

\* insert e after every element whose key is >= e's key
RECURSIVE InsertDesc(_, _)
InsertDesc(sorted, e) ==
    IF sorted = <<>> THEN <<e>>
    ELSE IF RLt(SortKey(Head(sorted)), SortKey(e))
         THEN <<e>> \o sorted
         ELSE <<Head(sorted)>> \o InsertDesc(Tail(sorted), e)

RECURSIVE SortDesc(_, _)
SortDesc(acc, rest) ==
    IF rest = <<>> THEN acc ELSE SortDesc(InsertDesc(acc, Head(rest)), Tail(rest))

Accepts(est) == RLe(min_edge, est.abs_edge) /\ RLe(Rat(4, 10), est.confidence)

find_signals(ests) == SortDesc(<<>>, SelectSeq(ests, Accepts))

(***************************************************************************)
(* KellyPositionSizer.                                                     *)
(***************************************************************************)
KellyPositionSizer(bankroll, max_position_percent) ==
    [ bankroll |-> bankroll,
      max_position_pct |-> Rat(max_position_percent, 100),
      kelly_fraction |-> Rat(1, 4) ]

NoSignal == [ side |-> "NONE" ]

Cap_Uncapped(kelly_adjusted, max_position_pct) == kelly_adjusted

Cap(kelly_adjusted, max_position_pct) == RMin(kelly_adjusted, max_position_pct)

KellyRaw_NoOdds(entry_price, fair_price) ==
    LET b == RDiv(RSub(One, entry_price), entry_price)
        p == fair_price
        q == RSub(One, p)
    IN  RSub(RMul(b, p), q)

\* the Kelly criterion of size (lines 103-107): b the net odds, p the
\* estimated win probability
KellyRaw(entry_price, fair_price) ==
    LET b == RDiv(RSub(One, entry_price), entry_price)
        p == fair_price
        q == RSub(One, p)
    IN  RDiv(RSub(RMul(b, p), q), b)

Dust_Never(position_usd) == FALSE

\* minimum trade size: the amount is rejected as dust
Dust(position_usd) == RLt(position_usd, One)

size(sz, est) ==
    LET yes == est.recommended_side = "YES"
        entry_price == IF yes THEN est.yes_price ELSE est.no_price
        fair_price == IF yes THEN est.fair_yes_prob ELSE RSub(One, est.fair_yes_prob)
    IN
    IF RLe(entry_price, Rat(1, 100)) \/ RLe(Rat(99, 100), entry_price) THEN NoSignal
    ELSE IF RLe(fair_price, entry_price) THEN NoSignal
    ELSE
      LET kelly_raw == KellyRaw(entry_price, fair_price)
      IN
      IF RLe(kelly_raw, Zero) THEN NoSignal
      ELSE
        LET kelly_adjusted == RMul(RMul(kelly_raw, sz.kelly_fraction), est.confidence)
            capped == Cap(kelly_adjusted, sz.max_position_pct)
            position_usd == RMul(capped, sz.bankroll)
        IN
        IF Dust(position_usd) THEN NoSignal
        ELSE
          LET edge == RSub(fair_price, entry_price)
              expected_value == RMul(edge, position_usd)
          IN
          [ estimate |-> est.id,
            side |-> est.recommended_side,
            token_id |-> <<est.id, est.recommended_side>>,
            entry_price |-> entry_price,
            fair_price |-> fair_price,
            edge |-> edge,
            kelly_fraction |-> kelly_raw,
            capped_fraction |-> capped,
            position_size_usd |-> Round2(position_usd),
            expected_value |-> Round2(expected_value) ]

\* the reduction size_batch applies when the signal exceeds the remaining headroom
Shrink(signal, remaining) ==
    IF RLt(remaining, signal.position_size_usd)
    THEN [ signal EXCEPT
             !.position_size_usd = Round2(remaining),
             !.expected_value = Round2(RMul(signal.edge, Round2(remaining))) ]
    ELSE signal

RECURSIVE SizeLoop(_, _, _, _)
SizeLoop(sz, ests, acc, total_exposure) ==
    LET max_total_exposure == RMul(sz.bankroll, Rat(1, 2)) IN
    IF ests = <<>> THEN acc
    ELSE IF RLe(max_total_exposure, total_exposure) THEN acc
    ELSE
      LET signal == size(sz, Head(ests)) IN
      IF signal = NoSignal THEN SizeLoop(sz, Tail(ests), acc, total_exposure)
      ELSE
        LET s == Shrink(signal, RSub(max_total_exposure, total_exposure)) IN
        SizeLoop(sz, Tail(ests), Append(acc, s), RAdd(total_exposure, s.position_size_usd))

size_batch(sz, ests) == SizeLoop(sz, ests, <<>>, Zero)

update_bankroll_Stale(sz, new_bankroll) == sz

\* KellyPositionSizer.update_bankroll
update_bankroll(sz, new_bankroll) == [ sz EXCEPT !.bankroll = new_bankroll ]

(***************************************************************************)
(* Text.  A Python str is a sequence of one-character strings; None is the *)
(* one-element sequence <<"None">>, which no str equals.  (The dash of the *)
(* "No asks" message is written "-" here.)                                 *)
(***************************************************************************)
None == <<"None">>
NoneNum == <<0, 0>>      \* None in a field that otherwise holds a float

MSG ==
    [
      no_asks |->
        <<"N", "o", " ", "a", "s", "k", "s", " ", "i", "n", " ", "o", "r",
          "d", "e", "r", " ", "b", "o", "o", "k", " ", "-", " ", "m", "a",
          "r", "k", "e", "t", " ", "m", "a", "y", " ", "b", "e", " ", "i",
          "l", "l", "i", "q", "u", "i", "d">>,
      slippage |->
        <<"S", "l", "i", "p", "p", "a", "g", "e", ":", " ", "b", "e", "s",
          "t", "_", "a", "s", "k", "=">>,
      slippage_max |->
        <<" ", ">", " ", "m", "a", "x", "=">>,
      response |->
        <<"R", "e", "s", "p", "o", "n", "s", "e", ":", " ">>,
      empty |->
        <<"E", "m", "p", "t", "y", " ", "r", "e", "s", "p", "o", "n", "s",
          "e", " ", "f", "r", "o", "m", " ", "p", "o", "s", "t", "_", "o",
          "r", "d", "e", "r">> ]
KW ==
    [
      auth |->
        <<"a", "u", "t", "h">>,
      network |->
        <<"n", "e", "t", "w", "o", "r", "k">>,
      rate |->
        <<"r", "a", "t", "e">> ]
ST ==
    [
      matched |->
        <<"m", "a", "t", "c", "h", "e", "d">>,
      filled |->
        <<"f", "i", "l", "l", "e", "d">>,
      unmatched |->
        <<"u", "n", "m", "a", "t", "c", "h", "e", "d">> ]
\* the letters str.lower() maps: the 26 lower-case letters, then their
\* upper-case forms in the same order
LETTERS ==
    <<"a", "b", "c", "d", "e", "f", "g", "h", "i", "j", "k", "l", "m",
      "n", "o", "p", "q", "r", "s", "t", "u", "v", "w", "x", "y", "z",
      "A", "B", "C", "D", "E", "F", "G", "H", "I", "J", "K", "L", "M",
      "N", "O", "P", "Q", "R", "S", "T", "U", "V", "W", "X", "Y", "Z">>
DIGITS == <<"0", "1", "2", "3", "4", "5", "6", "7", "8", "9">>
ERR ==
    [
      unauthorized |->
        <<"4", "0", "1", " ", "U", "n", "a", "u", "t", "h", "o",
          "r", "i", "z", "e", "d">>,
      network |->
        <<"N", "E", "T", "W", "O", "R", "K", " ", "i", "s", " ", "u",
          "n", "r", "e", "a", "c", "h", "a", "b", "l", "e">>,
      rate |->
        <<"R", "a", "t", "e", " ", "l", "i", "m", "i", "t", " ", "e",
          "x", "c", "e", "e", "d", "e", "d">>,
      balance |->
        <<"n", "o", "t", " ", "e", "n", "o", "u", "g", "h", " ", "b",
          "a", "l", "a", "n", "c", "e">>,
      separate |->
        <<"S", "e", "p", "a", "r", "a", "t", "e", " ", "t", "i", "c",
          "k", " ", "s", "i", "z", "e">> ]
ID_A == <<"0", "x", "a", "1">>
REPR ==
    [
      id |->
        <<"{", "'", "o", "r", "d", "e", "r", "I", "D", "'", ":", " ", "'",
          "0", "x", "a", "1", "'", ",", " ", "'", "s", "t", "a", "t", "u", "s",
          "'", ":", " ", "'", "m", "a", "t", "c", "h", "e", "d", "'", "}">>,
      id_only |->
        <<"{", "'", "i", "d", "'", ":", " ", "'", "0", "x", "a", "1",
          "'", "}">>,
      matched |->
        <<"{", "'", "s", "t", "a", "t", "u", "s", "'", ":", " ", "'",
          "m", "a", "t", "c", "h", "e", "d", "'", "}">>,
      unmatched |->
        <<"{", "'", "s", "t", "a", "t", "u", "s", "'", ":", " ",
          "'", "u", "n", "m", "a", "t", "c", "h", "e", "d", "'", "}">>,
      empty_id |->
        <<"{", "'", "o", "r", "d", "e", "r", "I", "D", "'", ":",
          " ", "'", "'", ",", " ", "'", "s", "t", "a", "t", "u", "s", "'", ":",
          " ", "'", "u", "n", "m", "a", "t", "c", "h", "e", "d", "'", "}">>,
      auth |->
        <<"{", "'", "e", "r", "r", "o", "r", "'", ":", " ", "'", "I",
          "n", "v", "a", "l", "i", "d", " ", "A", "U", "T", "H", " ", "h", "e",
          "a", "d", "e", "r", "'", "}">> ]

LowerChar(c) ==
    IF \E i \in 27..52 : LETTERS[i] = c
    THEN LETTERS[(CHOOSE i \in 27..52 : LETTERS[i] = c) - 26]
    ELSE c

lower(s) == [ i \in 1..Len(s) |-> LowerChar(s[i]) ]

\* Python: sub in s
Contains(sub, s) ==
    \E i \in 1..(Len(s) - Len(sub) + 1) : SubSeq(s, i, i + Len(sub) - 1) = sub

\* Python: s[:n]
Prefix(s, n) == SubSeq(s, 1, IF Len(s) < n THEN Len(s) ELSE n)

RECURSIVE NatText(_)
NatText(n) ==
    IF n < 10 THEN <<DIGITS[n + 1]>>
    ELSE NatText(n \div 10) \o <<DIGITS[(n % 10) + 1]>>

\* Python f"{x:.4f}" of a non-negative x
Format4f(x) ==
    LET n == x[1] * 10000
        d == x[2]
        f == n \div d
        r == n - f * d
        k == IF 2 * r < d THEN f
             ELSE IF 2 * r > d THEN f + 1
             ELSE IF f % 2 = 0 THEN f ELSE f + 1
        frac == k % 10000
    IN  NatText(k \div 10000) \o <<".">> \o
        <<DIGITS[(frac \div 1000) + 1], DIGITS[((frac \div 100) % 10) + 1],
          DIGITS[((frac \div 10) % 10) + 1], DIGITS[(frac % 10) + 1]>>

(***************************************************************************)
(* The exchange connector as TradeExecutor.execute sees it.  For one       *)
(* signal the connector's behaviour is a record                            *)
(*   book : what get_order_book does ("raise" with a message, or the asks),*)
(*   post : what create_market_order / post_order do.                      *)
(* A response of post_order is a dict (its orderID / id / status values,   *)
(* None for a missing key, and the text of str(resp)), another value       *)
(* (its str() and its truth value), None, or a raised exception.           *)
(***************************************************************************)
BookRaise(msg) == [ kind |-> "raise", asks |-> <<>>, text |-> msg ]
BookAsks(asks) == [ kind |-> "asks", asks |-> asks, text |-> <<>> ]

RespDict(orderID, id, status, repr) ==
    [ kind |-> "dict", orderID |-> orderID, id |-> id, status |-> status,
      text |-> repr, truthy |-> TRUE ]
RespOther(repr, truthy) ==
    [ kind |-> "other", orderID |-> None, id |-> None, status |-> <<>>,
      text |-> repr, truthy |-> truthy ]
RespNone ==
    [ kind |-> "none", orderID |-> None, id |-> None, status |-> <<>>,
      text |-> None, truthy |-> FALSE ]
\* create_market_order raises: post_order is not reached
RespRaiseCreate(msg) ==
    [ kind |-> "raise_create", orderID |-> None, id |-> None, status |-> <<>>,
      text |-> msg, truthy |-> FALSE ]
\* post_order raises after the order was handed to the connector
RespRaisePost(msg) ==
    [ kind |-> "raise_post", orderID |-> None, id |-> None, status |-> <<>>,
      text |-> msg, truthy |-> FALSE ]

ExecutionResult(signal, success, order_id, fill_price, fill_amount, error) ==
    [ signal |-> signal, success |-> success, order_id |-> order_id,
      fill_price |-> fill_price, fill_amount |-> fill_amount, error |-> error ]

Failed_ErrorDropped(signal, error) ==
    ExecutionResult(signal, FALSE, None, NoneNum, NoneNum, None)

\* the ExecutionResult of the early returns and of the except branch
Failed(signal, error) == ExecutionResult(signal, FALSE, None, NoneNum, NoneNum, error)

\* Python: x or y, for values that are a str or None
Or(x, y) == IF x # None /\ x # <<>> THEN x ELSE y

SlippageExceeded_PriceCapOnly(best_ask, entry_price) == RLt(Rat(99, 100), best_ask)

\* the slippage guard of execute: TRUE when the order must not be sent
SlippageExceeded(best_ask, entry_price) ==
    RLt(RMin(RMul(entry_price, Rat(105, 100)), Rat(99, 100)), best_ask)

\* lines 120-138: the ExecutionResult built from the response of post_order
ParseResponse(signal, resp, best_ask) ==
    IF resp.kind = "dict"
    THEN LET order_id == Or(resp.orderID, resp.id)
             success == order_id # None \/ resp.status \in {ST.matched, ST.filled}
         IN  ExecutionResult(signal, success, order_id, best_ask,
                 IF success THEN signal.position_size_usd ELSE NoneNum,
                 IF success THEN None ELSE MSG.response \o Prefix(resp.text, 200))
    ELSE LET order_id == IF resp.truthy THEN resp.text ELSE None
             success == resp.kind # "none"
         IN  ExecutionResult(signal, success, order_id, best_ask,
                 IF success THEN signal.position_size_usd ELSE NoneNum,
                 IF success THEN None ELSE MSG.empty)

\* TradeExecutor.execute: the result, and whether post_order was called
execute(signal, conn) ==
    IF conn.book.kind = "raise"
    THEN [ result |-> Failed(signal, conn.book.text), posted |-> FALSE ]
    ELSE IF conn.book.asks = <<>>
    THEN [ result |-> Failed(signal, MSG.no_asks), posted |-> FALSE ]
    ELSE
      LET best_ask == conn.book.asks[1]
          max_acceptable == RMin(RMul(signal.entry_price, Rat(105, 100)), Rat(99, 100))
      IN
      IF SlippageExceeded(best_ask, signal.entry_price)
      THEN [ result |-> Failed(signal, MSG.slippage \o Format4f(best_ask)
                                       \o MSG.slippage_max \o Format4f(max_acceptable)),
             posted |-> FALSE ]
      ELSE IF conn.post.kind = "raise_create"
      THEN [ result |-> Failed(signal, conn.post.text), posted |-> FALSE ]
      ELSE IF conn.post.kind = "raise_post"
      THEN [ result |-> Failed(signal, conn.post.text), posted |-> TRUE ]
      ELSE [ result |-> ParseResponse(signal, conn.post, best_ask), posted |-> TRUE ]

Systemic_CaseSensitive(result) ==
    /\ ~result.success
    /\ result.error # None /\ result.error # <<>>
    /\ \/ Contains(KW.auth, result.error)
       \/ Contains(KW.network, result.error)
       \/ Contains(KW.rate, result.error)

\* the abort test of execute_batch (lines 173-177)
Systemic(result) ==
    /\ ~result.success
    /\ result.error # None /\ result.error # <<>>
    /\ \/ Contains(KW.auth, lower(result.error))
       \/ Contains(KW.network, lower(result.error))
       \/ Contains(KW.rate, lower(result.error))

\* TradeExecutor.execute_batch: the results, and the orders the connector received
RECURSIVE ExecLoop(_, _, _, _, _)
ExecLoop(sigs, conns, i, res, ords) ==
    IF i > Len(sigs) THEN [ results |-> res, orders |-> ords ]
    ELSE
      LET r == execute(sigs[i], conns[i])
          res2 == Append(res, r.result)
          ords2 == IF r.posted
                   THEN Append(ords, [ index |-> i, token_id |-> sigs[i].token_id,
                                       amount |-> sigs[i].position_size_usd ])
                   ELSE ords
      IN
      IF Systemic(r.result) THEN [ results |-> res2, orders |-> ords2 ]
      ELSE ExecLoop(sigs, conns, i + 1, res2, ords2)

execute_batch_NewestFirst(sigs, conns) ==
    LET done == ExecLoop(sigs, conns, 1, <<>>, <<>>)
        n == Len(done.results)
    IN  [ results |-> [ i \in 1..n |-> done.results[n + 1 - i] ], orders |-> done.orders ]

execute_batch(sigs, conns) == ExecLoop(sigs, conns, 1, <<>>, <<>>)

(***************************************************************************)
(* AgentState and its persistence (src/self_funding.py).                   *)
(* A timestamp is "" (never set) or "ts" (some datetime.now()).            *)
(* The state file is absent ("none"), holds the JSON document written by   *)
(* save ("json", data = the document, a mapping from key to value), or     *)
(* holds the truncated text an interrupted write_text leaves ("partial").  *)
(***************************************************************************)
HISTORY_CAP == 1000
SYNC_EVERY == 6

AgentState ==
    [ starting_bankroll |-> Rat(STARTING_BANKROLL, 1),
      current_bankroll |-> Rat(STARTING_BANKROLL, 1),
      total_trades |-> 0,
      winning_trades |-> 0,
      losing_trades |-> 0,
      total_pnl |-> Zero,
      total_api_cost |-> Zero,
      total_fees |-> Zero,
      positions_open |-> 0,
      started_at |-> "",
      last_cycle_at |-> "",
      cycles_completed |-> 0,
      is_alive |-> TRUE,
      trade_history |-> <<>> ]

NoFile == [ kind |-> "none", data |-> << >> ]
PartialFile == [ kind |-> "partial", data |-> << >> ]

\* AgentState.save: write_text(json.dumps(self.__dict__)) run to completion
save(st) == [ kind |-> "json", data |-> st ]

\* AgentState.load: the document's known keys over the defaults, or a fresh state
FreshState == [ AgentState EXCEPT !.started_at = "ts" ]

\* names for which hasattr(state, k) holds although k is no field: the
\* methods and the attributes every object has (a few of them)
ClassAttrs == { "save", "load", "__class__", "__doc__" }

\* for k, v in data.items(): if hasattr(state, k): setattr(state, k, v).
\* The result is the instance's __dict__: a key naming a method or __doc__
\* becomes an instance attribute beside the fields.
MergeKnownKeys(data) ==
    [ k \in DOMAIN AgentState \cup (DOMAIN data \cap ClassAttrs) |->
        IF k \in DOMAIN data THEN data[k] ELSE AgentState[k] ]

\* setattr(state, "__class__", v) raises TypeError for every JSON value v
SetattrRaises(data) == "__class__" \in DOMAIN data

load(f) ==
    IF f.kind = "json" /\ ~SetattrRaises(f.data) THEN MergeKnownKeys(f.data) ELSE FreshState

(***************************************************************************)
(* SelfFundingManager and DeathCheck: each operator gives the AgentState   *)
(* the method leaves in memory; the actions below add the save.            *)
(***************************************************************************)
TrimHistory_KeepsOldest(h) ==
    IF Len(h) > HISTORY_CAP THEN SubSeq(h, 1, HISTORY_CAP) ELSE h

\* lines 88-90: keep only the last 1000 trades
TrimHistory(h) ==
    IF Len(h) > HISTORY_CAP THEN SubSeq(h, Len(h) - HISTORY_CAP + 1, Len(h)) ELSE h

record_trade_ZeroPnlWins(st, pnl, api_cost_increment) ==
    LET bankroll == RAdd(st.current_bankroll, RSub(pnl, api_cost_increment)) IN
    [ st EXCEPT
        !.total_trades = @ + 1,
        !.total_pnl = RAdd(@, pnl),
        !.total_api_cost = RAdd(@, api_cost_increment),
        !.winning_trades = IF RLe(Zero, pnl) THEN @ + 1 ELSE @,
        !.losing_trades = IF RLe(Zero, pnl) THEN @ ELSE @ + 1,
        !.current_bankroll = bankroll,
        !.trade_history = TrimHistory(Append(@,
            [ pnl |-> pnl, api_cost |-> api_cost_increment,
              bankroll_after |-> bankroll, timestamp |-> "ts" ])) ]

record_trade_CostNotDeducted(st, pnl, api_cost_increment) ==
    LET bankroll == RAdd(st.current_bankroll, pnl) IN
    [ st EXCEPT
        !.total_trades = @ + 1,
        !.total_pnl = RAdd(@, pnl),
        !.total_api_cost = RAdd(@, api_cost_increment),
        !.winning_trades = IF RLt(Zero, pnl) THEN @ + 1 ELSE @,
        !.losing_trades = IF RLt(Zero, pnl) THEN @ ELSE @ + 1,
        !.current_bankroll = bankroll,
        !.trade_history = TrimHistory(Append(@,
            [ pnl |-> pnl, api_cost |-> api_cost_increment,
              bankroll_after |-> bankroll, timestamp |-> "ts" ])) ]

record_trade(st, pnl, api_cost_increment) ==
    LET bankroll == RAdd(st.current_bankroll, RSub(pnl, api_cost_increment)) IN
    [ st EXCEPT
        !.total_trades = @ + 1,
        !.total_pnl = RAdd(@, pnl),
        !.total_api_cost = RAdd(@, api_cost_increment),
        !.winning_trades = IF RLt(Zero, pnl) THEN @ + 1 ELSE @,
        !.losing_trades = IF RLt(Zero, pnl) THEN @ ELSE @ + 1,
        !.current_bankroll = bankroll,
        !.trade_history = TrimHistory(Append(@,
            [ pnl |-> pnl, api_cost |-> api_cost_increment,
              bankroll_after |-> bankroll, timestamp |-> "ts" ])) ]

record_cycle_cost_NoCharge(st, api_cost) ==
    [ st EXCEPT
        !.total_api_cost = RAdd(@, api_cost),
        !.cycles_completed = @ + 1,
        !.last_cycle_at = "ts" ]

record_cycle_cost(st, api_cost) ==
    [ st EXCEPT
        !.total_api_cost = RAdd(@, api_cost),
        !.current_bankroll = RSub(@, api_cost),
        !.cycles_completed = @ + 1,
        !.last_cycle_at = "ts" ]

\* balance.get_usdc_balance: the sum of the balanceOf calls that succeed
\* (a failed call is logged and skipped); it raises when the wallet address
\* cannot be derived.  A failed call is NoneNum.
get_usdc_balance(chain) ==
    RAdd(IF chain.usdc_e = NoneNum THEN Zero ELSE chain.usdc_e,
         IF chain.native = NoneNum THEN Zero ELSE chain.native)

\* drift test of sync_balance_from_chain
SyncOverwrites(st, chain) ==
    /\ chain.wallet_ok
    /\ RLt(Zero, get_usdc_balance(chain))
    /\ RLt(Rat(1, 2), RAbs(RSub(get_usdc_balance(chain), st.current_bankroll)))

sync_balance_from_chain_LogsCorrection(st, chain) ==
    IF SyncOverwrites(st, chain)
    THEN [ st EXCEPT !.current_bankroll = get_usdc_balance(chain),
                     !.total_trades = @ + 1,
                     !.trade_history = TrimHistory(Append(@,
                         [ pnl |-> RSub(get_usdc_balance(chain), st.current_bankroll),
                           api_cost |-> Zero,
                           bankroll_after |-> get_usdc_balance(chain),
                           timestamp |-> "ts" ])) ]
    ELSE st

sync_balance_from_chain(st, chain) ==
    IF SyncOverwrites(st, chain)
    THEN [ st EXCEPT !.current_bankroll = get_usdc_balance(chain) ]
    ELSE st

BelowThreshold_Strict(st) == RLt(st.current_bankroll, DEATH_THRESHOLD)

\* the test of DeathCheck.is_dead
BelowThreshold(st) == RLe(st.current_bankroll, DEATH_THRESHOLD)

is_dead(st) == IF BelowThreshold(st) THEN [ st EXCEPT !.is_alive = FALSE ] ELSE st

(***************************************************************************)
(* Bounds and input sets.                                                  *)
(***************************************************************************)
MaxEstimates == 4       \* longest list of estimates the sizing runs draw
MaxSignals == 2         \* longest batch the execution runs draw
MaxCycles == 1          \* cycles_completed is not pushed beyond this
MaxTrades == 1          \* total_trades is not pushed beyond this (from a history
                        \* one short of its cap: not beyond the cap plus this)

EST ==
    [
      yes |->
        FairValueEstimate(1, Rat(40, 100), Rat(60, 100), Rat(90, 100), One),
      small |->
        FairValueEstimate(2, Rat(50, 100), Rat(50, 100), Rat(60, 100),
          Rat(1, 2)),
      no |->
        FairValueEstimate(3, Rat(70, 100), Rat(30, 100), Rat(40, 100),
          Rat(8, 10)),
      illiquid |->
        FairValueEstimate(4, Rat(99, 100), Rat(1, 100), One, One),
      noedge |->
        FairValueEstimate(5, Rat(50, 100), Rat(50, 100), Rat(50, 100), One),
      high |->
        FairValueEstimate(6, Rat(95, 100), Rat(5, 100), Rat(99, 100), One),
      zero |->
        FairValueEstimate(7, Zero, One, Rat(10, 100), Rat(1, 2)) ]

EstimatePool == { EST.yes, EST.small, EST.no, EST.illiquid, EST.noedge, EST.zero }

SeqsUpTo(S, n) == UNION { [1..k -> S] : k \in 0..n }

Bankrolls == { Rat(50, 1), Rat(33332, 1000), Rat(20008, 1000) }
Percents == { MAX_POSITION_PERCENT, 20 }

BOOK_OK == BookAsks(<<Rat(41, 100), Rat(45, 100)>>)
POST_OK == RespDict(ID_A, None, ST.matched, REPR.id)

\* what the connector may do for one signal
Conn(book, post) == [ book |-> book, post |-> post ]

ConnPool ==
    { Conn(BookRaise(ERR.network), POST_OK),
      Conn(BookAsks(<<>>), POST_OK),
      Conn(BookAsks(<<Rat(42, 100)>>), POST_OK),
      Conn(BookAsks(<<Rat(43, 100)>>), POST_OK),
      Conn(BookAsks(<<Rat(99, 100)>>), POST_OK),
      Conn(BookAsks(<<Rat(995, 1000)>>), POST_OK) }
    \cup
    { Conn(BOOK_OK, p) : p \in
        { POST_OK,
          RespDict(None, ID_A, <<>>, REPR.id_only),
          RespDict(None, None, ST.matched, REPR.matched),
          RespDict(None, None, ST.unmatched, REPR.unmatched),
          RespDict(<<>>, None, ST.unmatched, REPR.empty_id),
          RespDict(None, None, <<>>, REPR.auth),
          RespOther(ID_A, TRUE),
          RespOther(<<>>, FALSE),
          RespNone,
          RespRaiseCreate(ERR.balance),
          RespRaisePost(ERR.unauthorized),
          RespRaisePost(ERR.rate),
          RespRaisePost(ERR.separate),
          RespRaisePost(<<>>) } }

DefaultSizer == KellyPositionSizer(Rat(STARTING_BANKROLL, 1), MAX_POSITION_PERCENT)

SignalPool == { size(DefaultSizer, e) : e \in { EST.yes, EST.high } }

\* inputs of a cycle of the running agent
CycleEstimates == { <<>>, <<EST.no, EST.yes>> }
CycleConns == { Conn(BOOK_OK, POST_OK), Conn(BOOK_OK, RespRaisePost(ERR.unauthorized)) }
CycleCosts == { Rat(2, 1) }
Trades == { <<Rat(3, 2), Rat(1, 10)>> }

Chain(wallet_ok, usdc_e, native) ==
    [ wallet_ok |-> wallet_ok, usdc_e |-> usdc_e, native |-> native ]
Chains ==
    { Chain(FALSE, Zero, Zero),
      Chain(TRUE, Rat(1, 2), Zero),
      Chain(TRUE, NoneNum, Rat(1, 2)),
      Chain(TRUE, Rat(33332, 1000), Zero) }
StartChains == { Chain(FALSE, Zero, Zero), Chain(TRUE, Rat(33332, 1000), Zero) }

(***************************************************************************)
(* The running agent: main(), run_cycle() and the ledger operations.       *)
(***************************************************************************)
loopVars == <<shutdown_requested, at, left>>

pipelineVars == <<estimates, mispriced, signals, connector, results, orders, pc>>

\* the locals of run_cycle are gone once another operation runs
NoCycle ==
    /\ estimates' = <<>>
    /\ mispriced' = <<>>
    /\ signals' = <<>>
    /\ connector' = <<>>
    /\ results' = <<>>
    /\ orders' = <<>>
    /\ pc' = "idle"

Op(op, ret) == [ op |-> op, ret |-> ret ]

InitLedger ==
    /\ state = AgentState
    /\ file = NoFile
    /\ proc = "down"
    /\ lastOp = Op("init", "None")
    /\ declaredDead = FALSE

\* main() has not reached its loop, no signal was delivered
InitLoop ==
    /\ shutdown_requested = FALSE
    /\ at = "start"
    /\ left = 0

InitPipeline ==
    /\ InitLoop
    /\ estimates = <<>>
    /\ mispriced = <<>>
    /\ sizer = DefaultSizer
    /\ signals = <<>>
    /\ connector = <<>>
    /\ results = <<>>
    /\ orders = <<>>
    /\ pc = "idle"

Init == InitLedger /\ InitPipeline

\* main() up to the main loop: pre-flight balance check, AgentState.load, the
\* first-run initialisation, the sizer, the connectivity probe
Main(chain, connected) ==
    /\ proc = "down"
    /\ LET cfg == IF chain.wallet_ok /\ RLt(get_usdc_balance(chain), Rat(STARTING_BANKROLL, 1))
                  THEN [ starting_bankroll |-> get_usdc_balance(chain) ]
                  ELSE [ starting_bankroll |-> Rat(STARTING_BANKROLL, 1) ]
           loaded == load(file)
           first == loaded.started_at = ""
           st == IF first
                 THEN [ loaded EXCEPT !.started_at = "ts",
                                      !.current_bankroll = cfg.starting_bankroll,
                                      !.starting_bankroll = cfg.starting_bankroll ]
                 ELSE loaded
       IN  /\ state' = st
           /\ file' = IF first THEN save(st) ELSE file
           /\ sizer' = KellyPositionSizer(st.current_bankroll, MAX_POSITION_PERCENT)
           /\ proc' = IF connected THEN "up" ELSE "down"
           /\ lastOp' = Op("main", IF file.kind = "json" THEN "loaded" ELSE "fresh")
    /\ NoCycle
    /\ UNCHANGED <<loopVars, declaredDead>>

\* SelfFundingManager.record_trade
RecordTrade(pnl, api_cost_increment) ==
    /\ proc = "up"
    /\ state.total_trades <
          (IF state.total_trades < HISTORY_CAP - 1 THEN MaxTrades ELSE HISTORY_CAP + MaxTrades)
    /\ state' = record_trade(state, pnl, api_cost_increment)
    /\ file' = save(state')
    /\ lastOp' = Op("record_trade", "None")
    /\ NoCycle
    /\ UNCHANGED <<loopVars, proc, sizer, declaredDead>>

RecordCycleCost_NoSave(api_cost) ==
    /\ proc = "up"
    /\ state.cycles_completed < MaxCycles
    /\ state' = record_cycle_cost(state, api_cost)
    /\ lastOp' = Op("record_cycle_cost", "None")
    /\ NoCycle
    /\ UNCHANGED <<loopVars, file, proc, sizer, declaredDead>>

\* SelfFundingManager.record_cycle_cost
RecordCycleCost(api_cost) ==
    /\ proc = "up"
    /\ state.cycles_completed < MaxCycles
    /\ state' = record_cycle_cost(state, api_cost)
    /\ file' = save(state')
    /\ lastOp' = Op("record_cycle_cost", "None")
    /\ NoCycle
    /\ UNCHANGED <<loopVars, proc, sizer, declaredDead>>

\* SelfFundingManager.sync_balance_from_chain; lastOp keeps what the balance
\* contracts answered
SyncBalance(chain) ==
    /\ proc = "up"
    /\ state' = sync_balance_from_chain(state, chain)
    /\ file' = IF SyncOverwrites(state, chain) THEN save(state') ELSE file
    /\ lastOp' = [ op |-> "sync_balance_from_chain",
                    ret |-> IF SyncOverwrites(state, chain) THEN "overwrite" ELSE "unchanged",
                    chain |-> chain ]
    /\ NoCycle
    /\ UNCHANGED <<loopVars, proc, sizer, declaredDead>>

\* DeathCheck.is_dead
IsDead ==
    /\ proc = "up"
    /\ state' = is_dead(state)
    /\ file' = IF BelowThreshold(state) THEN save(state') ELSE file
    /\ lastOp' = Op("is_dead", IF BelowThreshold(state) THEN "True" ELSE "False")
    /\ declaredDead' = (declaredDead \/ BelowThreshold(state))
    /\ NoCycle
    /\ UNCHANGED <<loopVars, proc, sizer>>

\* DeathCheck.health_report: its "alive" entry calls is_dead
HealthReport ==
    /\ proc = "up"
    /\ state' = is_dead(state)
    /\ file' = IF BelowThreshold(state) THEN save(state') ELSE file
    /\ lastOp' = Op("health_report", IF BelowThreshold(state) THEN "dead" ELSE "alive")
    /\ declaredDead' = (declaredDead \/ BelowThreshold(state))
    /\ NoCycle
    /\ UNCHANGED <<loopVars, proc, sizer>>

\* one iteration of the main loop in which run_cycle finds the agent dead:
\* is_dead() is True, run_cycle returns False, main prints the health report
\* (is_dead again) and calls sys.exit(0)
CycleDead ==
    /\ proc = "up"
    /\ BelowThreshold(state)
    /\ state' = is_dead(is_dead(state))
    /\ file' = save(state')
    /\ proc' = "down"
    /\ lastOp' = Op("run_cycle", "False")
    /\ declaredDead' = TRUE
    /\ NoCycle
    /\ UNCHANGED <<loopVars, sizer>>

\* one iteration in which the scan yields no market (run_cycle returns True at
\* line 78) or the scanner / estimator raises (caught by the main loop)
CycleIdle(how) ==
    /\ proc = "up"
    /\ ~BelowThreshold(state)
    /\ lastOp' = Op("run_cycle", how)
    /\ NoCycle
    /\ UNCHANGED <<loopVars, state, file, proc, sizer, declaredDead>>

\* one iteration in which run_cycle runs steps 1-7
CycleTrade(ests, cost) ==
    /\ proc = "up"
    /\ ~BelowThreshold(state)
    /\ state.cycles_completed < MaxCycles
    /\ LET found == find_signals(ests)
           sz == update_bankroll(sizer, state.current_bankroll)
           sigs == size_batch(sz, found)
           charged == record_cycle_cost(state, cost)
           sync == charged.cycles_completed % SYNC_EVERY = 0
       IN  \E conns \in [1..Len(sigs) -> CycleConns],
              chain \in IF sync THEN Chains ELSE { Chain(FALSE, Zero, Zero) } :
             LET done == execute_batch(sigs, conns)
                 st == IF sync THEN sync_balance_from_chain(charged, chain) ELSE charged
             IN  /\ estimates' = ests
                 /\ mispriced' = found
                 /\ sizer' = sz
                 /\ signals' = sigs
                 /\ connector' = conns
                 /\ results' = IF sigs = <<>> THEN <<>> ELSE done.results
                 /\ orders' = IF sigs = <<>> THEN <<>> ELSE done.orders
                 /\ state' = st
                 /\ file' = save(st)
                 /\ lastOp' = Op("run_cycle", IF sync THEN "True+sync" ELSE "True")
    /\ pc' = "idle"
    /\ UNCHANGED <<loopVars, proc, declaredDead>>

\* the shutdown signal: the loop ends, main saves the state and returns
Shutdown ==
    /\ proc = "up"
    /\ file' = save(state)
    /\ proc' = "down"
    /\ lastOp' = Op("shutdown", "None")
    /\ NoCycle
    /\ UNCHANGED <<loopVars, state, sizer, declaredDead>>

\* the process is killed.  Killed inside write_text, the file is left as it
\* was ("old": not yet opened) or truncated ("partial": opened for writing,
\* the text not yet complete).
Crash(outcome) ==
    /\ proc = "up"
    /\ file' = IF outcome = "partial" THEN PartialFile ELSE file
    /\ proc' = "down"
    /\ lastOp' = Op("crash", outcome)
    /\ NoCycle
    /\ UNCHANGED <<loopVars, state, sizer, declaredDead>>

Next ==
    \/ \E chain \in StartChains, connected \in BOOLEAN : Main(chain, connected)
    \/ \E t \in Trades : RecordTrade(t[1], t[2])
    \/ \E c \in CycleCosts : RecordCycleCost(c)
    \/ \E chain \in Chains : SyncBalance(chain)
    \/ IsDead
    \/ HealthReport
    \/ CycleDead
    \/ \E how \in { "no_markets", "raised" } : CycleIdle(how)
    \/ \E ests \in CycleEstimates, cost \in CycleCosts : CycleTrade(ests, cost)
    \/ Shutdown
    \/ \E outcome \in { "old", "partial" } : Crash(outcome)

Spec == Init /\ [][Next]_vars

(***************************************************************************)
(* The sizing pipeline on its own: MispricingDetector.find_signals and     *)
(* KellyPositionSizer.size / size_batch applied to drawn inputs.           *)
(***************************************************************************)
InitSizer ==
    /\ InitLedger
    /\ InitLoop
    /\ estimates \in SeqsUpTo(EstimatePool, MaxEstimates)
    /\ sizer \in { KellyPositionSizer(b, p) : b \in Bankrolls, p \in Percents }
    /\ mispriced = <<>>
    /\ signals = <<>>
    /\ connector = <<>>
    /\ results = <<>>
    /\ orders = <<>>
    /\ pc = "start"

ledgerVars == <<state, file, proc, lastOp, declaredDead>>

\* mispriced = mispricing_detector.find_signals(estimates)
Detect ==
    /\ pc = "start"
    /\ mispriced' = find_signals(estimates)
    /\ pc' = "filtered"
    /\ UNCHANGED <<loopVars, estimates, sizer, signals, connector, results, orders, ledgerVars>>

\* the caller hands the list to the sizer as it is
PassThrough ==
    /\ pc = "start"
    /\ mispriced' = estimates
    /\ pc' = "filtered"
    /\ UNCHANGED <<loopVars, estimates, sizer, signals, connector, results, orders, ledgerVars>>

\* signal = position_sizer.size(est) for the first estimate
SizeOne ==
    /\ pc = "filtered"
    /\ mispriced # <<>>
    /\ signals' = IF size(sizer, Head(mispriced)) = NoSignal
                  THEN <<>>
                  ELSE <<size(sizer, Head(mispriced))>>
    /\ pc' = "sized_one"
    /\ UNCHANGED <<loopVars, estimates, mispriced, sizer, connector, results, orders,
                   ledgerVars>>

\* signals = position_sizer.size_batch(mispriced)
SizeBatch ==
    /\ pc = "filtered"
    /\ signals' = size_batch(sizer, mispriced)
    /\ pc' = "sized"
    /\ UNCHANGED <<loopVars, estimates, mispriced, sizer, connector, results, orders,
                   ledgerVars>>

NextSizer == Detect \/ PassThrough \/ SizeOne \/ SizeBatch

SpecSizer == InitSizer /\ [][NextSizer]_vars

(***************************************************************************)
(* The executor on its own: TradeExecutor.execute_batch applied to drawn   *)
(* signals and connector behaviours.                                       *)
(***************************************************************************)
InitExec ==
    /\ InitLedger
    /\ InitLoop
    /\ estimates = <<>>
    /\ mispriced = <<>>
    /\ sizer = DefaultSizer
    /\ signals \in SeqsUpTo(SignalPool, MaxSignals)
    /\ connector \in [1..Len(signals) -> ConnPool]
    /\ results = <<>>
    /\ orders = <<>>
    /\ pc = "sized"

\* results = executor.execute_batch(signals)
ExecuteBatch ==
    /\ pc = "sized"
    /\ results' = execute_batch(signals, connector).results
    /\ orders' = execute_batch(signals, connector).orders
    /\ pc' = "executed"
    /\ UNCHANGED <<loopVars, estimates, mispriced, sizer, signals, connector, ledgerVars>>

NextExec == ExecuteBatch

SpecExec == InitExec /\ [][NextExec]_vars

(***************************************************************************)
(* Properties.                                                             *)
(***************************************************************************)
Sizes(sigs) == [ i \in 1..Len(sigs) |-> sigs[i].position_size_usd ]

HasIndicator(text) ==
    \E kw \in { KW.auth, KW.network, KW.rate } : Contains(kw, lower(text))

\* C1: once DeathCheck.is_dead has returned True, no step of the agent is a
\* cycle that sends an order to the connector.
C1_NoOrderAfterDeath ==
    [][declaredDead => ~(lastOp'.op = "run_cycle" /\ orders' # <<>>)]_vars

\* C2: is_dead returns True exactly when current_bankroll <= death_threshold,
\* and when it returns True is_alive is False in memory and in the file.
C2_IsDeadIffAtOrBelowThreshold ==
    lastOp.op = "is_dead" =>
        /\ (lastOp.ret = "True") <=> RLe(state.current_bankroll, DEATH_THRESHOLD)
        /\ lastOp.ret = "True" =>
              /\ ~state.is_alive
              /\ file.kind = "json"
              /\ ~file.data.is_alive

C2_Witness ==
    /\ lastOp = Op("is_dead", "True")
    /\ state.current_bankroll = DEATH_THRESHOLD
    /\ ~state.is_alive
    /\ file.kind = "json"

\* C3: there is no dead -> alive transition: a step never takes is_alive from
\* False to True, whatever operation or restart it is.
C3_DeadStaysDead == [][~state.is_alive => ~state'.is_alive]_vars

C5_NoPartialWrite == file.kind # "partial"

\* C6: the sizes of the signals size_batch returns sum to at most half the
\* bankroll, and each signal was admitted while the running total was still
\* below that ceiling.
C6_BatchExposureCap ==
    pc = "sized" =>
        /\ RLe(RSum(Sizes(signals)), RMul(sizer.bankroll, Rat(1, 2)))
        /\ \A k \in 1..Len(signals) :
              RLt(RSum(SubSeq(Sizes(signals), 1, k - 1)), RMul(sizer.bankroll, Rat(1, 2)))

\* C7: every signal size or size_batch emits has capped_fraction <= max_position_pct.
C7_CappedFractionBounded ==
    pc \in { "sized", "sized_one" } =>
        \A i \in 1..Len(signals) :
            RLe(signals[i].capped_fraction, sizer.max_position_pct)

C7_Witness ==
    /\ pc = "sized"
    /\ \E i \in 1..Len(signals) :
          /\ signals[i].capped_fraction = sizer.max_position_pct
          /\ RLt(sizer.max_position_pct, signals[i].kelly_fraction)

\* C8: for a signal whose order book has no asks, or whose best ask exceeds
\* min(entry_price * 1.05, 0.99), execute sends no order and returns a failure.
C8_NoOrderPastGuard ==
    pc = "executed" =>
        \A i \in 1..Len(results) :
            ( /\ connector[i].book.kind = "asks"
              /\ \/ connector[i].book.asks = <<>>
                 \/ RLt(RMin(RMul(signals[i].entry_price, Rat(105, 100)), Rat(99, 100)),
                        connector[i].book.asks[1]) )
            => /\ ~results[i].success
               /\ \A j \in 1..Len(orders) : orders[j].index # i

C8_Witness ==
    /\ pc = "executed"
    /\ Len(results) = 2
    /\ connector[1].book.asks = <<Rat(43, 100)>>
    /\ signals[1].entry_price = Rat(40, 100)
    /\ ~results[1].success
    /\ connector[2].book.asks = <<>>
    /\ ~results[2].success
    /\ orders = <<>>

\* C9: in execute_batch a failure whose error text holds "auth", "network" or
\* "rate" (case-insensitively) is the last result and no later signal reaches
\* the connector; after any other failure the next signal is executed.
C9_AbortOnlyOnSystemic ==
    pc = "executed" =>
        \A i \in 1..Len(results) :
            LET r == results[i]
                systemic == ~r.success /\ r.error # None /\ HasIndicator(r.error)
            IN  /\ systemic => /\ Len(results) = i
                               /\ \A j \in 1..Len(orders) : orders[j].index <= i
                /\ (~r.success /\ ~systemic /\ i < Len(signals)) => Len(results) > i

C9_Witness ==
    /\ pc = "executed"
    /\ Len(signals) = 2
    /\ Len(results) = 1
    /\ ~results[1].success
    /\ Contains(KW.rate, lower(results[1].error))
    /\ ~Contains(KW.rate, results[1].error)

\* C10: every ExecutionResult is exactly one of (success and an order id) or
\* (failure and an error).
C10_SuccessIdOrFailureError ==
    pc = "executed" =>
        \A i \in 1..Len(results) :
            (results[i].success /\ results[i].order_id # None)
                # (~results[i].success /\ results[i].error # None)

\* the response post_order returned for signal i, when execute got that far
Responded(i) ==
    /\ \E j \in 1..Len(orders) : orders[j].index = i
    /\ connector[i].post.kind \in { "dict", "other", "none" }

\* the response carries an order identifier: a non-empty orderID / id of a
\* dict, or a non-empty value of another type
CarriesOrderId(resp) ==
    \/ resp.kind = "dict" /\ Or(resp.orderID, resp.id) # None
    \/ resp.kind = "other" /\ resp.truthy

\* C11: execute reports success exactly when the response carries an order
\* identifier or a status of matched / filled; any other response gives
\* success = False with the raw response in error.
C11_SuccessIffIdOrFilled ==
    pc = "executed" =>
        \A i \in 1..Len(results) :
            Responded(i) =>
                LET resp == connector[i].post
                    r == results[i]
                IN  /\ r.success <=> ( \/ CarriesOrderId(resp)
                                       \/ resp.status \in { ST.matched, ST.filled } )
                    /\ ~r.success =>
                          /\ r.error # None
                          /\ resp.kind # "none" => Contains(Prefix(resp.text, 200), r.error)

\* the side resolution of size, for the estimate handed to it
EntryPrice(est) == IF est.recommended_side = "YES" THEN est.yes_price ELSE est.no_price
FairPrice(est) ==
    IF est.recommended_side = "YES" THEN est.fair_yes_prob ELSE RSub(One, est.fair_yes_prob)

\* C12: size returns a signal exactly when 0.01 < entry_price < 0.99,
\* fair_price > entry_price and min(0.25 * f * confidence, max_position_pct)
\* * bankroll >= 1, f being the Kelly fraction; otherwise it returns no
\* signal; an emitted signal has 0.01 < entry_price < 0.99 and
\* fair_price > entry_price.
C12_SignalIffUsableEdgeAndSize ==
    pc = "sized_one" =>
        LET est == Head(mispriced)
            entry == EntryPrice(est)
            fair == FairPrice(est)
            usable == /\ RLt(Rat(1, 100), entry)
                      /\ RLt(entry, Rat(99, 100))
                      /\ RLt(entry, fair)
            f == RDiv(RSub(fair, entry), RSub(One, entry))
            amount == RMul(RMin(RMul(RMul(Rat(1, 4), f), est.confidence),
                                sizer.max_position_pct), sizer.bankroll)
        IN  /\ Len(signals) = 1 <=> (usable /\ RLe(One, amount))
            /\ Len(signals) \in { 0, 1 }
            /\ \A i \in 1..Len(signals) :
                  /\ RLt(Rat(1, 100), signals[i].entry_price)
                  /\ RLt(signals[i].entry_price, Rat(99, 100))
                  /\ RLt(signals[i].entry_price, signals[i].fair_price)
                  /\ signals[i].entry_price = entry
                  /\ signals[i].fair_price = fair

\* a NO-side estimate is sized on its NO token
C12_Witness ==
    /\ pc = "sized_one"
    /\ Head(mispriced) = EST.no
    /\ Len(signals) = 1
    /\ signals[1].side = "NO"
    /\ signals[1].entry_price = Rat(30, 100)

\* C13: every signal size or size_batch returns has position_size_usd > 0,
\* a signal shrunk to the remaining headroom included.
C13_PositiveSize ==
    pc \in { "sized", "sized_one" } =>
        \A i \in 1..Len(signals) : RLt(Zero, signals[i].position_size_usd)

\* C14: the kelly_fraction of an emitted signal, computed as (b*p - q)/b,
\* equals (fair_price - entry_price)/(1 - entry_price) and is strictly
\* positive; entry 0.40 with fair 0.60 gives 1/3.
C14_KellyClosedForm ==
    /\ KellyRaw(Rat(40, 100), Rat(60, 100)) = Rat(1, 3)
    /\ pc \in { "sized", "sized_one" } =>
          \A i \in 1..Len(signals) :
              /\ signals[i].kelly_fraction =
                    RDiv(RSub(signals[i].fair_price, signals[i].entry_price),
                         RSub(One, signals[i].entry_price))
              /\ RLt(Zero, signals[i].kelly_fraction)

C14_Witness ==
    /\ pc = "sized"
    /\ Len(signals) = 2
    /\ signals[1].entry_price = Rat(30, 100)
    /\ signals[1].fair_price = Rat(60, 100)
    /\ signals[1].kelly_fraction = Rat(3, 7)
    /\ signals[2].entry_price = Rat(40, 100)
    /\ signals[2].kelly_fraction = Rat(5, 6)

\* the estimates of the batch for which size returns a signal, in order
Sizable(sz, ests) == SelectSeq(ests, LAMBDA e : size(sz, e) # NoSignal)

\* 0.5 * bankroll - the exposure of the first k - 1 returned signals
Headroom(sz, sigs, k) ==
    RSub(RMul(sz.bankroll, Rat(1, 2)), RSum(SubSeq(Sizes(sigs), 1, k - 1)))

\* C15: in size_batch, when the headroom is positive and the sized signal
\* exceeds it, the signal is admitted with position_size_usd equal to the
\* remaining headroom and expected_value recomputed (to cents) as edge * the
\* new size.
C15_ShrinkToHeadroom ==
    pc = "sized" =>
        LET ok == Sizable(sizer, mispriced) IN
        \A k \in 1..Len(ok) :
            ( /\ k - 1 <= Len(signals)
              /\ RLt(Zero, Headroom(sizer, signals, k))
              /\ RLt(Headroom(sizer, signals, k), size(sizer, ok[k]).position_size_usd) )
            => /\ k <= Len(signals)
               /\ signals[k].position_size_usd = Headroom(sizer, signals, k)
               /\ signals[k].expected_value =
                     Round2(RMul(signals[k].edge, signals[k].position_size_usd))

\* the permutations of 1..n
Perms(n) == { f \in [1..n -> 1..n] : \A i, j \in 1..n : i # j => f[i] # f[j] }

\* out holds exactly the elements of ests with abs_edge >= min_edge and
\* confidence >= 0.4, each once, in descending order of abs_edge * confidence,
\* equal keys in the order they have in ests
FilteredSorted(ests, out) ==
    LET acc == SelectSeq(ests, LAMBDA e : /\ RLe(Rat(MIN_EDGE_PERCENT, 100), e.abs_edge)
                                          /\ RLe(Rat(4, 10), e.confidence))
        key(e) == RMul(e.abs_edge, e.confidence)
    IN  /\ Len(out) = Len(acc)
        /\ \E f \in Perms(Len(acc)) :
              /\ \A i \in 1..Len(out) : out[i] = acc[f[i]]
              /\ \A i, j \in 1..Len(out) :
                    i < j => /\ RLe(key(out[j]), key(out[i]))
                             /\ key(out[i]) = key(out[j]) => f[i] < f[j]

StatePool ==
    LET traded == record_trade(FreshState, Rat(3, 2), Rat(1, 10))
        cycled == record_cycle_cost(traded, Rat(2, 1))
        dead == is_dead([ cycled EXCEPT !.current_bankroll = Rat(3, 10) ])
    IN  { FreshState, traded, cycled, dead }

\* a document without the keys in ks / with the further key k
Without(data, ks) == [ k \in DOMAIN data \ ks |-> data[k] ]
With(data, k, v) == [ x \in DOMAIN data \cup {k} |-> IF x = k THEN v ELSE data[x] ]

MissingKeys == { {}, { "is_alive", "trade_history" }, { "total_fees", "started_at" } }
ExtraKeys == { "future_key", "save", "__class__", "__doc__" }

DocPool ==
    { NoFile, PartialFile }
    \cup { save(Without(st, ks)) : st \in StatePool, ks \in MissingKeys }
    \cup { save(With(st, k, 1)) : st \in StatePool, k \in ExtraKeys }

InitStore ==
    /\ InitPipeline
    /\ state \in StatePool
    /\ file \in DocPool
    /\ proc = "up"
    /\ lastOp = Op("init", "None")
    /\ declaredDead = FALSE

\* state.save()
Save ==
    /\ lastOp.op = "init"
    /\ file' = save(state)
    /\ lastOp' = Op("save", "None")
    /\ UNCHANGED <<loopVars, pipelineVars, sizer, state, proc, declaredDead>>

\* state = AgentState.load()
Load ==
    /\ lastOp.op \in { "init", "save" }
    /\ state' = load(file)
    /\ lastOp' = Op("load", IF lastOp.op = "save" THEN "saved" ELSE "drawn")
    /\ UNCHANGED <<loopVars, pipelineVars, sizer, file, proc, declaredDead>>

NextStore == Save \/ Load

SpecStore == InitStore /\ [][NextStore]_vars

\* the schema's fields, each from the document when it has the key and the
\* schema default otherwise
SchemaMerge(data) ==
    [ k \in DOMAIN AgentState |-> IF k \in DOMAIN data THEN data[k] ELSE AgentState[k] ]

\* C17: save followed by load reproduces every field; a load of any
\* document gives the schema's fields, from the document where it has the
\* key and from the defaults where not, and nothing else (the keys that are
\* not in the schema are ignored).
C17_RoundTripAndDefaulting ==
    [][ /\ (lastOp.op = "save" /\ lastOp'.op = "load") => state' = state
        /\ (lastOp'.op = "load" /\ file.kind = "json") => state' = SchemaMerge(file.data)
      ]_vars

(***************************************************************************)
(* The end-to-end scenario: a fresh agent with the default bankroll whose  *)
(* cycles find no signal and cost 2 each.  No order is sent, so the wallet *)
(* keeps its balance; the balance lookup of the sixth-cycle sync fails or  *)
(* returns that balance.                                                   *)
(***************************************************************************)
MaxQuietCycles == 26    \* the scenario is followed for this many cycles

QuietCost == Rat(2, 1)
QuietChains == { Chain(FALSE, Zero, Zero), Chain(TRUE, Rat(STARTING_BANKROLL, 1), Zero) }

InitQuiet ==
    /\ InitPipeline
    /\ state = FreshState
    /\ file = NoFile
    /\ proc = "up"
    /\ lastOp = Op("main", "fresh")
    /\ declaredDead = FALSE

CycleQuiet_SyncFirst(cost) ==
    /\ proc = "up"
    /\ ~BelowThreshold(state)
    /\ state.cycles_completed < MaxQuietCycles
    /\ LET sync == (state.cycles_completed + 1) % SYNC_EVERY = 0
       IN  \E chain \in IF sync THEN QuietChains ELSE { Chain(FALSE, Zero, Zero) } :
             LET synced == IF sync THEN sync_balance_from_chain(state, chain) ELSE state
                 st == record_cycle_cost(synced, cost)
             IN  /\ sizer' = update_bankroll(sizer, state.current_bankroll)
                 /\ state' = st
                 /\ file' = save(st)
                 /\ lastOp' = Op("run_cycle",
                                 IF sync /\ SyncOverwrites(state, chain)
                                 THEN "True+overwrite" ELSE "True")
    /\ NoCycle
    /\ UNCHANGED <<loopVars, proc, declaredDead>>

\* one iteration of the main loop in which run_cycle runs steps 1-7 and
\* size_batch returns no signal
CycleQuiet(cost) ==
    /\ proc = "up"
    /\ ~BelowThreshold(state)
    /\ state.cycles_completed < MaxQuietCycles
    /\ LET sz == update_bankroll(sizer, state.current_bankroll)
           charged == record_cycle_cost(state, cost)
           sync == charged.cycles_completed % SYNC_EVERY = 0
       IN  \E chain \in IF sync THEN QuietChains ELSE { Chain(FALSE, Zero, Zero) } :
             LET st == IF sync THEN sync_balance_from_chain(charged, chain) ELSE charged
             IN  /\ sizer' = sz
                 /\ state' = st
                 /\ file' = save(st)
                 /\ lastOp' = Op("run_cycle",
                                 IF sync /\ SyncOverwrites(charged, chain)
                                 THEN "True+overwrite" ELSE "True")
    /\ NoCycle
    /\ UNCHANGED <<loopVars, proc, declaredDead>>

\* the agent may be stopped and started again between two cycles
NextQuiet ==
    \/ CycleQuiet(QuietCost)
    \/ CycleDead
    \/ Shutdown
    \/ \E chain \in QuietChains : Main(chain, TRUE)

SpecQuiet == InitQuiet /\ [][NextQuiet]_vars

\* C18: from bankroll 50 with cycle cost 2 and no trade the bankroll is
\* 50 - 2k after k completed cycles for k up to 24, the bankroll is at or
\* below the death threshold after cycle 25, and no further cycle completes.
C18_BurnDownToDeath ==
    /\ state.cycles_completed <= 24 =>
          state.current_bankroll = Rat(STARTING_BANKROLL - 2 * state.cycles_completed, 1)
    /\ state.cycles_completed <= 25
    /\ state.cycles_completed = 25 => RLe(state.current_bankroll, DEATH_THRESHOLD)

(***************************************************************************)
(* The ledger on its own: the operations of SelfFundingManager and         *)
(* DeathCheck on drawn bankrolls, with winning, losing and zero trades.    *)
(***************************************************************************)
LedgerBankrolls == { Rat(STARTING_BANKROLL, 1), Rat(3, 2), Rat(1, 2) }
LedgerTrades ==
    { <<Rat(3, 2), Rat(1, 10)>>, <<Rat(0 - 1, 1), Rat(1, 10)>>,
      <<Zero, Zero>>, <<Rat(5, 100), Rat(1, 10)>> }
LedgerCosts == { Rat(2, 1), Rat(1, 4), Zero }

InitLedgerOps ==
    /\ InitPipeline
    /\ state \in { [ FreshState EXCEPT !.current_bankroll = b ] : b \in LedgerBankrolls }
    /\ file = save(state)
    /\ proc = "up"
    /\ lastOp = Op("init", "None")
    /\ declaredDead = FALSE

NextLedger ==
    \/ \E t \in LedgerTrades : RecordTrade(t[1], t[2])
    \/ \E c \in LedgerCosts : RecordCycleCost(c)
    \/ IsDead

SpecLedger == InitLedgerOps /\ [][NextLedger]_vars

\* C19: a record_trade(pnl, cost) step adds one to total_trades and to
\* exactly one of winning_trades (pnl > 0) and losing_trades (otherwise),
\* adds pnl to total_pnl, cost to total_api_cost and pnl - cost to
\* current_bankroll, appends one history entry whose bankroll_after is the
\* new bankroll, and leaves the state persisted.
C19_RecordTradeEffects ==
    [][ lastOp'.op = "record_trade" =>
          \E t \in LedgerTrades :
            LET pnl == t[1]
                cost == t[2]
                h == state'.trade_history
            IN  /\ state'.total_trades = state.total_trades + 1
                /\ state'.winning_trades =
                      state.winning_trades + (IF RLt(Zero, pnl) THEN 1 ELSE 0)
                /\ state'.losing_trades =
                      state.losing_trades + (IF RLt(Zero, pnl) THEN 0 ELSE 1)
                /\ state'.total_pnl = RAdd(state.total_pnl, pnl)
                /\ state'.total_api_cost = RAdd(state.total_api_cost, cost)
                /\ state'.current_bankroll =
                      RSub(RAdd(state.current_bankroll, pnl), cost)
                /\ Len(h) = Len(state.trade_history) + 1
                /\ SubSeq(h, 1, Len(h) - 1) = state.trade_history
                /\ h[Len(h)].pnl = pnl
                /\ h[Len(h)].bankroll_after = state'.current_bankroll
                /\ \A k \in DOMAIN state \ { "total_trades", "winning_trades",
                        "losing_trades", "total_pnl", "total_api_cost",
                        "current_bankroll", "trade_history" } : state'[k] = state[k]
                /\ file' = save(state')
      ]_vars

\* a trade with pnl = 0 is counted as a loss
C19_Witness ==
    /\ lastOp.op = "record_trade"
    /\ state.total_trades = 1
    /\ state.losing_trades = 1
    /\ state.total_pnl = Zero
    /\ Len(state.trade_history) = 1
    /\ file.data = state

\* what record_cycle_cost(cost) does to the ledger between st and st2
Charged(st, st2, cost) ==
    /\ st2.total_api_cost = RAdd(st.total_api_cost, cost)
    /\ st2.cycles_completed = st.cycles_completed + 1
    /\ st2.last_cycle_at = "ts"

\* C20: a record_cycle_cost(api_cost) step subtracts api_cost from
\* current_bankroll, adds it to total_api_cost, adds one to cycles_completed
\* and leaves the state persisted; a run_cycle step that runs to its end
\* charges the cycle's cost likewise, whether or not an order was sent
\* (a sync in the same cycle may then overwrite the bankroll).
C20_CycleCostCharged ==
    [][ /\ lastOp'.op = "record_cycle_cost" =>
              \E c \in CycleCosts \cup LedgerCosts :
                  /\ Charged(state, state', c)
                  /\ state'.current_bankroll = RSub(state.current_bankroll, c)
                  /\ \A k \in DOMAIN state \ { "total_api_cost", "cycles_completed",
                          "last_cycle_at", "current_bankroll" } : state'[k] = state[k]
                  /\ file' = save(state')
        /\ (lastOp'.op = "run_cycle" /\ lastOp'.ret \in { "True", "True+sync" }) =>
              \E c \in CycleCosts :
                  /\ Charged(state, state', c)
                  /\ lastOp'.ret = "True" =>
                        state'.current_bankroll = RSub(state.current_bankroll, c)
                  /\ file' = save(state')
      ]_vars

\* a cycle that sent no order and was charged
C20_Witness ==
    /\ lastOp = Op("run_cycle", "True")
    /\ signals = <<>>
    /\ orders = <<>>
    /\ state.cycles_completed = 1
    /\ state.current_bankroll = RSub(Rat(STARTING_BANKROLL, 1), Rat(2, 1))
    /\ state.total_api_cost = Rat(2, 1)
    /\ file.data = state

\* ---------------------------------------------------------------------------
\* Reconciliation with the wallet: sync_balance_from_chain, record_trade and
\* is_dead over balance answers of every kind
\* ---------------------------------------------------------------------------

\* what the two balanceOf calls answer: nothing at all (no wallet address),
\* exactly 0, a balance half a unit from 1.50 and 0.50, a balance a quarter
\* from 50, one contract failing, both failing, a mid-size balance
SyncChains ==
    { Chain(FALSE, Zero, Zero),
      Chain(TRUE, Zero, Zero),
      Chain(TRUE, One, Zero),
      Chain(TRUE, Rat(STARTING_BANKROLL, 1), Rat(1, 4)),
      Chain(TRUE, NoneNum, Rat(1, 2)),
      Chain(TRUE, NoneNum, NoneNum),
      Chain(TRUE, Rat(30, 1), Zero) }

NextSync ==
    \/ \E chain \in SyncChains : SyncBalance(chain)
    \/ \E t \in LedgerTrades : RecordTrade(t[1], t[2])
    \/ IsDead

SpecSync == InitLedgerOps /\ [][NextSync]_vars

\* C21: a sync_balance_from_chain step in which both balance contracts
\* answered, so that get_usdc_balance returned the wallet's balance (>= 0),
\* sets current_bankroll to that balance and leaves the state persisted when
\* the balance is more than 0.50 away from the tracked bankroll, and leaves
\* current_bankroll as it was otherwise.
C21_ExternalTruthWins ==
    [][ (/\ lastOp'.op = "sync_balance_from_chain"
         /\ lastOp'.chain.wallet_ok
         /\ lastOp'.chain.usdc_e # NoneNum
         /\ lastOp'.chain.native # NoneNum) =>
          LET external == get_usdc_balance(lastOp'.chain)
              drift == RAbs(RSub(external, state.current_bankroll))
          IN  IF RLt(Rat(1, 2), drift)
              THEN /\ state'.current_bankroll = external
                   /\ file' = save(state')
              ELSE state'.current_bankroll = state.current_bankroll
      ]_vars

\* C22: a sync_balance_from_chain step in which the balance query failed (the
\* wallet address could not be derived, or a balanceOf call failed) leaves
\* the ledger and the state file as they were.
C22_FailedQueryChangesNothing ==
    [][ (/\ lastOp'.op = "sync_balance_from_chain"
         /\ \/ ~lastOp'.chain.wallet_ok
            \/ lastOp'.chain.usdc_e = NoneNum
            \/ lastOp'.chain.native = NoneNum) =>
          (state' = state /\ file' = file)
      ]_vars

\* C23: execute_batch always hands back a list of results, one for each
\* signal it reached, and whenever the order-book query, the construction of
\* the order or its submission raised, the result of that signal is a failure
\* that carries the text of the exception and no order id.
C23_ErrorsBecomeResults ==
    pc = "executed" =>
        /\ Len(results) <= Len(signals)
        /\ signals # <<>> => results # <<>>
        /\ \A i \in 1..Len(results) :
            LET conn == connector[i]
                r == results[i]
                raised ==
                    IF conn.book.kind = "raise" THEN conn.book.text
                    ELSE IF /\ conn.book.asks # <<>>
                            /\ ~SlippageExceeded(conn.book.asks[1], signals[i].entry_price)
                            /\ conn.post.kind \in { "raise_create", "raise_post" }
                    THEN conn.post.text
                    ELSE None
            IN  /\ r.signal = signals[i]
                /\ raised # None =>
                      (~r.success /\ r.error = raised /\ r.order_id = None)

\* a batch in which building the first order raised and the order-book query
\* of the second signal raised
C23_Witness ==
    /\ pc = "executed"
    /\ Len(results) = 2
    /\ connector[1].post.kind = "raise_create"
    /\ results[1].error = ERR.balance
    /\ connector[2].book.kind = "raise"
    /\ results[2].error = ERR.network
    /\ orders = <<>>

\* C24: a run_cycle step that reaches sizing leaves the sizer with the
\* bankroll the ledger held when the cycle sized (current_bankroll before the
\* cycle's own accounting), its signals are those size_batch yields at that
\* bankroll, and nothing else of the sizer changes; every other step except
\* start-up leaves the sizer as it was.
C24_SizerFollowsLedger ==
    [][ IF lastOp'.op = "run_cycle" /\ lastOp'.ret \in { "True", "True+sync" }
        THEN /\ sizer'.bankroll = state.current_bankroll
             /\ sizer' = [ sizer EXCEPT !.bankroll = state.current_bankroll ]
             /\ signals' = size_batch(sizer', mispriced')
        ELSE lastOp'.op # "main" => sizer' = sizer
      ]_vars

\* a cycle that sized against a bankroll the wallet reconciliation had
\* changed since start-up
C24_Witness ==
    /\ lastOp.op = "run_cycle"
    /\ lastOp.ret = "True"
    /\ signals # <<>>
    /\ state.starting_bankroll = Rat(STARTING_BANKROLL, 1)
    /\ sizer.bankroll = Rat(33332, 1000)

(***************************************************************************)
(* The main loop of main() step by step (src/main.py:267-309): the test of *)
(* the shutdown flag, run_cycle up to sizing, the rest of run_cycle, the   *)
(* one-second steps of the wait between cycles, the backoff after an       *)
(* exception, and handle_signal, which may run between any two steps.      *)
(* handle_signal replaces the default SIGINT handler, so KeyboardInterrupt *)
(* is not raised by a signal and its except branch is not modelled.        *)
(***************************************************************************)
ScanInterval == 2       \* config.scan_interval: iterations of the wait loop

\* states main() may hold when it reaches the loop: a first run on a funded
\* wallet, on a wallet holding 2.50, and on an empty wallet
LoopBankrolls == { Rat(STARTING_BANKROLL, 1), Rat(5, 2), Zero }

\* SelfFundingManager.summary divides by starting_bankroll
SummaryRaises(st) == st.starting_bankroll = Zero

InitMainLoop ==
    /\ InitPipeline
    /\ state \in { [ FreshState EXCEPT !.current_bankroll = b, !.starting_bankroll = b ] :
                     b \in LoopBankrolls }
    /\ file = save(state)
    /\ proc = "up"
    /\ lastOp = Op("main", "fresh")
    /\ declaredDead = FALSE

\* main() arrives at the while statement
EnterLoop ==
    /\ proc = "up"
    /\ at = "start"
    /\ at' = "top"
    /\ lastOp' = Op("enter_loop", "None")
    /\ UNCHANGED <<pipelineVars, sizer, state, file, proc, declaredDead,
                   shutdown_requested, left>>

\* handle_signal: SIGINT or SIGTERM is delivered
HandleSignal ==
    /\ proc = "up"
    /\ ~shutdown_requested
    /\ shutdown_requested' = TRUE
    /\ lastOp' = Op("handle_signal", "None")
    /\ UNCHANGED <<pipelineVars, sizer, state, file, proc, declaredDead, at, left>>

\* the while test finds the flag set: the loop ends, main saves and returns
LoopExit ==
    /\ proc = "up"
    /\ at = "top"
    /\ shutdown_requested
    /\ file' = save(state)
    /\ proc' = "down"
    /\ at' = "exit"
    /\ lastOp' = Op("shutdown", "None")
    /\ NoCycle
    /\ UNCHANGED <<sizer, state, declaredDead, shutdown_requested, left>>

\* run_cycle finds the agent dead at step 0 and returns False; main prints
\* the summary (which raises on a starting bankroll of 0: the except branch
\* then takes over), the health report (is_dead again) and calls sys.exit(0)
LoopDead ==
    /\ proc = "up"
    /\ at = "top"
    /\ ~shutdown_requested
    /\ BelowThreshold(state)
    /\ state' = IF SummaryRaises(state) THEN is_dead(state) ELSE is_dead(is_dead(state))
    /\ file' = save(state')
    /\ declaredDead' = TRUE
    /\ proc' = IF SummaryRaises(state) THEN "up" ELSE "down"
    /\ at' = IF SummaryRaises(state) THEN "backoff" ELSE "exit"
    /\ lastOp' = Op("run_cycle", "False")
    /\ NoCycle
    /\ UNCHANGED <<sizer, shutdown_requested, left>>

\* run_cycle returns True at line 78: no market was found
LoopNoMarkets ==
    /\ proc = "up"
    /\ at = "top"
    /\ ~shutdown_requested
    /\ ~BelowThreshold(state)
    /\ at' = "wait"
    /\ left' = ScanInterval
    /\ lastOp' = Op("run_cycle", "no_markets")
    /\ NoCycle
    /\ UNCHANGED <<sizer, state, file, proc, declaredDead, shutdown_requested>>

CycleRaise_Fatal ==
    /\ proc = "up"
    /\ at = "top"
    /\ ~shutdown_requested
    /\ ~BelowThreshold(state)
    /\ at' = "exit"
    /\ proc' = "down"
    /\ lastOp' = Op("run_cycle", "raised")
    /\ NoCycle
    /\ UNCHANGED <<sizer, state, file, declaredDead, shutdown_requested, left>>

\* the scanner or the estimator raises: the except branch of the main loop
CycleRaise ==
    /\ proc = "up"
    /\ at = "top"
    /\ ~shutdown_requested
    /\ ~BelowThreshold(state)
    /\ at' = "backoff"
    /\ lastOp' = Op("run_cycle", "raised")
    /\ NoCycle
    /\ UNCHANGED <<sizer, state, file, proc, declaredDead, shutdown_requested, left>>

\* the while test finds the flag clear and run_cycle runs steps 0-5
CycleStart(ests) ==
    /\ proc = "up"
    /\ at = "top"
    /\ ~shutdown_requested
    /\ ~BelowThreshold(state)
    /\ state.cycles_completed < MaxCycles
    /\ estimates' = ests
    /\ mispriced' = find_signals(ests)
    /\ sizer' = update_bankroll(sizer, state.current_bankroll)
    /\ signals' = size_batch(sizer', mispriced')
    /\ pc' = "sized"
    /\ at' = "cycle"
    /\ lastOp' = Op("run_cycle", "sized")
    /\ UNCHANGED <<connector, results, orders, state, file, proc, declaredDead,
                   shutdown_requested, left>>

\* run_cycle runs steps 6-7, the periodic sync and the summary, and returns
\* True; main starts the wait
CycleFinish(cost) ==
    /\ proc = "up"
    /\ at = "cycle"
    /\ LET charged == record_cycle_cost(state, cost)
           sync == charged.cycles_completed % SYNC_EVERY = 0
       IN  \E conns \in [1..Len(signals) -> CycleConns],
              chain \in IF sync THEN Chains ELSE { Chain(FALSE, Zero, Zero) } :
             LET done == execute_batch(signals, conns)
                 st == IF sync THEN sync_balance_from_chain(charged, chain) ELSE charged
             IN  /\ connector' = conns
                 /\ results' = IF signals = <<>> THEN <<>> ELSE done.results
                 /\ orders' = IF signals = <<>> THEN <<>> ELSE done.orders
                 /\ state' = st
                 /\ file' = save(st)
                 /\ at' = IF SummaryRaises(st) THEN "backoff" ELSE "wait"
                 /\ left' = IF SummaryRaises(st) THEN left ELSE ScanInterval
                 /\ lastOp' = Op("run_cycle", IF SummaryRaises(st) THEN "raised" ELSE "True")
    /\ pc' = "idle"
    /\ UNCHANGED <<estimates, mispriced, sizer, signals, proc, declaredDead,
                   shutdown_requested>>

WaitStep_SleepsThrough ==
    /\ proc = "up"
    /\ at = "wait"
    /\ IF left = 0
       THEN at' = "top" /\ left' = 0 /\ lastOp' = Op("wait", "done")
       ELSE at' = "wait" /\ left' = left - 1 /\ lastOp' = Op("wait", "sleep")
    /\ UNCHANGED <<pipelineVars, sizer, state, file, proc, declaredDead,
                   shutdown_requested>>

\* one iteration of the wait loop: leave it when the range is used up or the
\* flag is set, otherwise sleep one second
WaitStep ==
    /\ proc = "up"
    /\ at = "wait"
    /\ IF left = 0
       THEN at' = "top" /\ left' = 0 /\ lastOp' = Op("wait", "done")
       ELSE IF shutdown_requested
       THEN at' = "top" /\ left' = 0 /\ lastOp' = Op("wait", "break")
       ELSE at' = "wait" /\ left' = left - 1 /\ lastOp' = Op("wait", "sleep")
    /\ UNCHANGED <<pipelineVars, sizer, state, file, proc, declaredDead,
                   shutdown_requested>>

\* time.sleep(60) of the except branch returns
BackoffDone ==
    /\ proc = "up"
    /\ at = "backoff"
    /\ at' = "top"
    /\ lastOp' = Op("backoff", "None")
    /\ UNCHANGED <<pipelineVars, sizer, state, file, proc, declaredDead,
                   shutdown_requested, left>>

NextLoop ==
    \/ EnterLoop
    \/ HandleSignal
    \/ LoopExit
    \/ LoopDead
    \/ LoopNoMarkets
    \/ CycleRaise
    \/ \E ests \in CycleEstimates : CycleStart(ests)
    \/ \E cost \in CycleCosts : CycleFinish(cost)
    \/ WaitStep
    \/ BackoffDone

SpecLoop == InitMainLoop /\ [][NextLoop]_vars

\* C25: with the shutdown flag set no step starts a cycle; a cycle in flight
\* when the flag is set still runs the whole of execute_batch and its
\* accounting; with the flag set the while test leads only to the saving
\* exit and a step of the wait loop only back to the while test, never to
\* another second of sleep; and after the exit the file holds the state.
C25_CooperativeShutdown ==
    [][ /\ (shutdown_requested /\ at # "cycle") => at' # "cycle"
        /\ (shutdown_requested /\ lastOp'.op = "run_cycle") => at = "cycle"
        /\ (at = "cycle" /\ at' # "cycle") =>
              /\ lastOp'.op = "run_cycle"
              /\ \E conns \in [1..Len(signals) -> CycleConns] :
                    /\ connector' = conns
                    /\ signals # <<>> => results' = execute_batch(signals, conns).results
                    /\ signals # <<>> => orders' = execute_batch(signals, conns).orders
              /\ state'.cycles_completed = state.cycles_completed + 1
              /\ proc' = "up"
        /\ (shutdown_requested /\ at = "top" /\ at' # "top") =>
              (at' = "exit" /\ proc' = "down" /\ file' = save(state') /\ state' = state)
        /\ (shutdown_requested /\ at = "wait") => (at' = "top" /\ left' = 0)
      ]_vars

\* the flag was set while a cycle was in flight, and the cycle still sent its
\* orders and was charged before the wait began
C25_Witness ==
    /\ shutdown_requested
    /\ lastOp = Op("run_cycle", "True")
    /\ at = "wait"
    /\ left = ScanInterval
    /\ state.cycles_completed = 1
    /\ Len(orders) >= 1
    /\ file = save(state)

\* C26: an exception raised in a cycle leaves the process up and in the
\* backoff; the backoff leads only back to the while test; with the flag
\* clear the while test leads only into a cycle (which may find the agent
\* dead, find no market, raise, or reach sizing); and the process goes down
\* only through a run_cycle that found the agent dead or through the exit
\* the shutdown flag asks for.
C26_FailuresAreRetried ==
    [][ /\ (lastOp'.op = "run_cycle" /\ lastOp'.ret = "raised") =>
              (proc' = "up" /\ at' = "backoff")
        /\ (at = "backoff" /\ at' # "backoff") => (at' = "top" /\ proc' = "up")
        /\ (at = "top" /\ ~shutdown_requested /\ at' # "top") => lastOp'.op = "run_cycle"
        /\ (proc = "up" /\ proc' = "down") =>
              \/ lastOp' = Op("run_cycle", "False") /\ BelowThreshold(state)
              \/ lastOp' = Op("shutdown", "None") /\ shutdown_requested
      ]_vars

\* a cycle of a living agent raised, the backoff passed, and the process is
\* back at the while test with the flag clear
C26_Witness ==
    /\ lastOp = Op("backoff", "None")
    /\ at = "top"
    /\ proc = "up"
    /\ ~BelowThreshold(state)
    /\ ~shutdown_requested

\* C27: a health_report step leaves every field of the AgentState and the
\* state file as they were.
C27_HealthReportReadOnly ==
    [][ lastOp'.op = "health_report" => (state' = state /\ file' = file) ]_vars

\* C28: once an is_dead call has returned True, every later is_dead call
\* returns True as well.
C28_DeadIsAbsorbing ==
    [][ (declaredDead /\ lastOp'.op = "is_dead") => lastOp'.ret = "True" ]_vars

\* C29: a run_cycle step that completes its cost accounting with the
\* bankroll at or below the death threshold declares death in that same
\* step: is_dead has reported True and is_alive is False.
C29_DeathInSameCycle ==
    [][ (lastOp'.op = "run_cycle" /\ lastOp'.ret = "True" /\ BelowThreshold(state')) =>
          (declaredDead' /\ ~state'.is_alive)
      ]_vars

\* C30: the results of execute_batch are those of the first signals of the
\* batch, in the order of the batch: result i belongs to signal i and is what
\* execute yields for signal i on its own; the orders the connector received
\* are in the order of the batch, one at most for a signal, each for a signal
\* that has a result; and signal k+1 is taken up only when the result of
\* signal k exists and did not end the batch.
C30_SequentialInOrder ==
    pc = "executed" =>
        /\ Len(results) <= Len(signals)
        /\ \A i \in 1..Len(results) :
              /\ results[i].signal = signals[i]
              /\ results[i] = execute(signals[i], connector[i]).result
              /\ i > 1 => ~Systemic(results[i - 1])
        /\ \A j \in 1..Len(orders) :
              /\ orders[j].index \in 1..Len(results)
              /\ orders[j].token_id = signals[orders[j].index].token_id
              /\ orders[j].amount = signals[orders[j].index].position_size_usd
              /\ execute(signals[orders[j].index], connector[orders[j].index]).posted
              /\ \A k \in 1..Len(orders) : j < k => orders[j].index < orders[k].index

\* two different signals, each of which got its own result and its own order
C30_Witness ==
    /\ pc = "executed"
    /\ Len(signals) = 2
    /\ signals[1] # signals[2]
    /\ Len(results) = 2
    /\ results[1].success
    /\ ~results[2].success
    /\ Len(orders) = 2
    /\ orders[2].index = 2

(***************************************************************************)
(* The ledger with a long history: the state after 999 small winning       *)
(* trades, one entry short of the cap of the trade history.                *)
(***************************************************************************)
LongHistoryState ==
    [ FreshState EXCEPT
        !.total_trades = HISTORY_CAP - 1,
        !.winning_trades = HISTORY_CAP - 1,
        !.total_pnl = Rat(HISTORY_CAP - 1, 100),
        !.current_bankroll = RAdd(Rat(STARTING_BANKROLL, 1), Rat(HISTORY_CAP - 1, 100)),
        !.trade_history =
            [ i \in 1..(HISTORY_CAP - 1) |->
                [ pnl |-> Rat(1, 100), api_cost |-> Zero,
                  bankroll_after |-> RAdd(Rat(STARTING_BANKROLL, 1), Rat(i, 100)),
                  timestamp |-> "ts" ] ] ]

InitHistory ==
    /\ InitPipeline
    /\ state = LongHistoryState
    /\ file = save(state)
    /\ proc = "up"
    /\ lastOp = Op("init", "None")
    /\ declaredDead = FALSE

SpecHistory == InitHistory /\ [][NextLedger]_vars

\* C31: trade_history never holds more than 1000 entries, and a record_trade
\* step leaves in it the last 1000 (or all, if fewer) of the old entries
\* followed by the new one, in their order.
C31_HistoryBounded ==
    [][ /\ Len(state'.trade_history) <= HISTORY_CAP
        /\ lastOp'.op = "record_trade" =>
              LET old == state.trade_history
                  new == state'.trade_history
                  n == Len(new)
                  dropped == Len(old) + 1 - n
              IN  /\ n = IF Len(old) < HISTORY_CAP THEN Len(old) + 1 ELSE HISTORY_CAP
                  /\ \A i \in 1..(n - 1) : new[i] = old[i + dropped]
                  /\ new[n].bankroll_after = state'.current_bankroll
                  /\ new[n].pnl = RSub(state'.total_pnl, state.total_pnl)
      ]_vars

\* the 1001st trade was recorded: the oldest entry is gone, the newest is last
C31_Witness ==
    /\ lastOp.op = "record_trade"
    /\ state.total_trades = HISTORY_CAP + 1
    /\ Len(state.trade_history) = HISTORY_CAP
    /\ state.trade_history[1].bankroll_after = RAdd(Rat(STARTING_BANKROLL, 1), Rat(2, 100))
    /\ state.trade_history[HISTORY_CAP].bankroll_after = state.current_bankroll

\* C32: a run_cycle step that runs to its end leaves the ledger as
\* record_cycle_cost left it when the new cycles_completed is no multiple of
\* 6, and as sync_balance_from_chain, called on the ledger already charged,
\* left it when it is a multiple of 6.
C32_SyncEverySixthCycle ==
    [][ (lastOp'.op = "run_cycle" /\ lastOp'.ret \in { "True", "True+overwrite" }) =>
          LET charged == record_cycle_cost(state, QuietCost) IN
          IF (state.cycles_completed + 1) % 6 = 0
          THEN \E chain \in QuietChains :
                  /\ state' = sync_balance_from_chain(charged, chain)
                  /\ (lastOp'.ret = "True+overwrite") =
                        (state'.current_bankroll # charged.current_bankroll)
          ELSE state' = charged /\ lastOp'.ret = "True"
      ]_vars

\* the twelfth cycle: the wallet's 50 replaced the charged bankroll a second time
C32_Witness ==
    /\ lastOp = Op("run_cycle", "True+overwrite")
    /\ state.cycles_completed = 12
    /\ state.current_bankroll = Rat(STARTING_BANKROLL, 1)
    /\ state.total_api_cost = Rat(24, 1)

\* C33: a failed result has neither fill_price nor fill_amount; a successful
\* one has the best ask of its order book as fill_price and the signal's
\* position_size_usd as fill_amount.
C33_FillDataOnlyOnSuccess ==
    pc = "executed" =>
        \A i \in 1..Len(results) :
            LET r == results[i] IN
            IF r.success
            THEN /\ r.fill_price = connector[i].book.asks[1]
                 /\ r.fill_amount = signals[i].position_size_usd
            ELSE /\ r.fill_price = NoneNum
                 /\ r.fill_amount = NoneNum

\* C34: every signal size or size_batch emits has
\* position_size_usd <= max_position_pct * bankroll, position_size_usd being
\* the emitted size, already rounded to cents.
C34_PerTradeRiskBounded ==
    pc \in { "sized", "sized_one" } =>
        \A i \in 1..Len(signals) :
            RLe(signals[i].position_size_usd, RMul(sizer.max_position_pct, sizer.bankroll))

\* C35: every signal size_batch returns has position_size_usd >= 1.0.
C35_DustFloorAfterShrink ==
    pc = "sized" =>
        \A i \in 1..Len(signals) : RLe(One, signals[i].position_size_usd)

(***************************************************************************)
(* A busy run: the funded agent of the quiet scenario, but the scanner and *)
(* the estimator return up to nine mispriced markets each cycle.  results  *)
(* and orders are kept over the whole run, as the lines cycle.trade_       *)
(* executed / cycle.trade_failed of the log and the exchange keep them.    *)
(***************************************************************************)
MaxBusyCycles == 3      \* the run is followed for this many cycles

BusyCounts == { 0, 3, 6, 9 }

\* k estimates of distinct markets, each YES at 0.40 against a fair value 0.90
BusyEstimates(k) ==
    [ i \in 1..k |-> FairValueEstimate(i, Rat(40, 100), Rat(60, 100), Rat(90, 100), One) ]

\* one iteration of the main loop in which run_cycle runs steps 1-7; the
\* connector behaves alike for every signal of the cycle
CycleBusy(ests, conn, cost) ==
    /\ proc = "up"
    /\ ~BelowThreshold(state)
    /\ state.cycles_completed < MaxBusyCycles
    /\ LET found == find_signals(ests)
           sz == update_bankroll(sizer, state.current_bankroll)
           sigs == size_batch(sz, found)
           conns == [ i \in 1..Len(sigs) |-> conn ]
           done == execute_batch(sigs, conns)
           charged == record_cycle_cost(state, cost)
           sync == charged.cycles_completed % SYNC_EVERY = 0
       IN  \E chain \in IF sync THEN Chains ELSE { Chain(FALSE, Zero, Zero) } :
             LET st == IF sync THEN sync_balance_from_chain(charged, chain) ELSE charged
             IN  /\ estimates' = ests
                 /\ mispriced' = found
                 /\ sizer' = sz
                 /\ signals' = sigs
                 /\ connector' = conns
                 /\ results' = IF sigs = <<>> THEN results ELSE results \o done.results
                 /\ orders' = IF sigs = <<>> THEN orders ELSE orders \o done.orders
                 /\ state' = st
                 /\ file' = save(st)
                 /\ lastOp' = Op("run_cycle", IF sync THEN "True+sync" ELSE "True")
    /\ pc' = "idle"
    /\ UNCHANGED <<loopVars, proc, declaredDead>>

NextRun ==
    \E k \in BusyCounts, conn \in CycleConns, cost \in CycleCosts :
        CycleBusy(BusyEstimates(k), conn, cost)

SpecRun == InitQuiet /\ [][NextRun]_vars

\* C36: over a run of consecutive cycles in which no reconciliation has run
\* (fewer than six cycles from the start), the fill amounts of the successful
\* orders sum to no more than the bankroll the run started with.
C36_CommittedCapitalNotRedeployed ==
    state.cycles_completed < SYNC_EVERY =>
        LET ok == SelectSeq(results, LAMBDA r : r.success)
        IN  RLe(RSum([ i \in 1..Len(ok) |-> ok[i].fill_amount ]), state.starting_bankroll)

\* C37: ledger conservation.  A newly constructed AgentState has
\* current_bankroll = starting_bankroll + total_pnl - total_api_cost, and a
\* record_trade or record_cycle_cost call made in a state where the equation
\* holds leaves a state where it holds: it holds after any sequence of the
\* two calls.
C37_LedgerConservation ==
    /\ AgentState.current_bankroll =
          RSub(RAdd(AgentState.starting_bankroll, AgentState.total_pnl),
               AgentState.total_api_cost)
    /\ [][ LET Conserved(st) ==
                    st.current_bankroll =
                        RSub(RAdd(st.starting_bankroll, st.total_pnl), st.total_api_cost)
            IN  (lastOp'.op \in { "record_trade", "record_cycle_cost" } /\ Conserved(state))
                    => Conserved(state') ]_vars

C37_Witness ==
    /\ lastOp.op \in { "record_trade", "record_cycle_cost" }
    /\ state.total_trades >= 1
    /\ state.cycles_completed >= 1
    /\ state.total_pnl # Zero
    /\ state.total_api_cost = Rat(21, 10)
    /\ state.current_bankroll =
          RSub(RAdd(Rat(STARTING_BANKROLL, 1), state.total_pnl), state.total_api_cost)

\* C38: every run_cycle call that returns True (the cycle completed, or the
\* scan found no market) has called record_cycle_cost once: cycles_completed
\* has grown by exactly one and total_api_cost by the cost of the cycle.
C38_EveryContinuingCycleCharged ==
    [][ (lastOp'.op = "run_cycle" /\ lastOp'.ret \in { "True", "no_markets" }) =>
            /\ state'.cycles_completed = state.cycles_completed + 1
            /\ \E cost \in CycleCosts :
                 state'.total_api_cost = RAdd(state.total_api_cost, cost) ]_vars

\* C39: main() started without a state file while the wallet holds 33.332,
\* less than the configured starting bankroll, enters the main loop with
\* starting_bankroll and current_bankroll both 33.332, the sizer built on
\* that bankroll, and that state written to the state file.
C39_FirstRunAdoptsOnChainBalance ==
    [][ (file.kind = "none" /\ Main(Chain(TRUE, Rat(33332, 1000), Zero), TRUE)) =>
            /\ state'.starting_bankroll = Rat(33332, 1000)
            /\ state'.current_bankroll = Rat(33332, 1000)
            /\ sizer'.bankroll = Rat(33332, 1000)
            /\ file' = save(state') ]_vars

====
